---------------------------- MODULE Spec2Model ----------------------------
(***************************************************************************)
(* Model of scripts/merge_fluidaudio_chunks.py: the cross-chunk speaker    *)
(* reconciliation and merge of FluidAudio diarisation chunks.              *)
(*                                                                         *)
(* Representation.                                                         *)
(*  - Times are integers (seconds).                                        *)
(*  - Speaker IDs are decimal strings; an ID is modelled by the integer    *)
(*    int(sid) that the code computes from it, str(n) by n.                *)
(*  - A JSON object is a record with a field "keys": the set of keys that  *)
(*    are present.  Reading an absent key raises KeyError.                 *)
(*  - A Python dict is a sequence of [k, v] entries in insertion order,    *)
(*    which is the order dict iteration follows.                           *)
(*  - An embedding is a tuple of integers.  A centroid (numpy mean) is the *)
(*    exact rational vector num / den in lowest terms.                     *)
(*  - A similarity (float) is the exact real  dot / sqrt(sq),  or NaN.     *)
(***************************************************************************)
EXTENDS Integers, Sequences, FiniteSets

VARIABLES
    entry,             \* "main": the CLI was run; "merge_chunks": the function was called
    chunk_files,       \* contents of the chunk JSON files, in list order
    chunk_offsets,     \* merge_chunks parameter
    chunk_size,        \* merge_chunks parameter
    overlap,           \* merge_chunks parameter
    pc,                \* "loop", "returned", "written", "error"
    i,                 \* index of the next chunk of the for loop (0-based, as enumerate)
    all_segments,      \* merge_chunks local
    global_centroids,  \* merge_chunks local: the registry
    total_duration,    \* merge_chunks local
    speaker_map,       \* merge_chunks local: mapping of the chunk processed last
    result,            \* value returned by merge_chunks (None before)
    output             \* content of the output file (None while not written)

vars == <<entry, chunk_files, chunk_offsets, chunk_size, overlap, pc, i,
          all_segments, global_centroids, total_duration, speaker_map,
          result, output>>

None == [none |-> TRUE]

---------------------------------------------------------------------------
(* Python dict as an insertion-ordered sequence of entries.                *)

KeySet(d) == {d[n].k : n \in 1..Len(d)}

Get(d, key) == d[CHOOSE n \in 1..Len(d) : d[n].k = key].v

Put(d, key, val) ==
    IF key \in KeySet(d)
    THEN [n \in 1..Len(d) |-> IF d[n].k = key THEN [k |-> key, v |-> val] ELSE d[n]]
    ELSE Append(d, [k |-> key, v |-> val])

---------------------------------------------------------------------------
(* Exact arithmetic.                                                       *)

Abs(x) == IF x < 0 THEN -x ELSE x

Max2(a, b) == IF a > b THEN a ELSE b

SetMax(S) == CHOOSE x \in S : \A y \in S : y <= x

RECURSIVE GCD(_, _)
GCD(a, b) == IF b = 0 THEN a ELSE GCD(b, a % b)

RECURSIVE SumSeq(_)
SumSeq(s) == IF s = <<>> THEN 0 ELSE Head(s) + SumSeq(Tail(s))

RECURSIVE GCDSeq(_)
GCDSeq(s) == IF s = <<>> THEN 0 ELSE GCD(Abs(Head(s)), GCDSeq(Tail(s)))

Dot(a, b) == SumSeq([n \in 1..Len(a) |-> a[n] * b[n]])

\* a/b > c/d for a, c >= 0 and b, d > 0, by continued-fraction comparison
\* (no product is formed, so nothing overflows).
RECURSIVE FracGt(_, _, _, _)
FracGt(a, b, c, d) ==
    LET qa == a \div b
        qc == c \div d
        ra == a % b
        rc == c % d
    IN  IF qa # qc THEN qa > qc
        ELSE IF ra = 0 THEN FALSE
        ELSE IF rc = 0 THEN TRUE
        ELSE FracGt(d, rc, b, ra)

\* x > y for the reals x = x.dot / sqrt(x.sq), y = y.dot / sqrt(y.sq).
RealGt(x, y) ==
    IF x.dot > 0
    THEN y.dot <= 0 \/ FracGt(x.dot * x.dot, x.sq, y.dot * y.dot, y.sq)
    ELSE y.dot < 0 /\ FracGt(y.dot * y.dot, y.sq, x.dot * x.dot, x.sq)

\* Python float comparison  x > y : False as soon as one side is NaN.
FloatGt(x, y) == ~x.nan /\ ~y.nan /\ RealGt(x, y)

FloatEq(x, y) == ~x.nan /\ ~y.nan /\ ~RealGt(x, y) /\ ~RealGt(y, x)

---------------------------------------------------------------------------
(* cosine_similarity                                                       *)

\* np.dot raises ValueError on 1-D arrays of different length.
CosineRaises(a, b) == Len(a.num) # Len(b.num)

\* The centroids are num/den with den > 0, and cosine is invariant under
\* positive scaling, so the value is Dot(num, num') / sqrt(|num|^2 |num'|^2).
\* A zero norm gives 0.0 / 0.0, which numpy evaluates to nan (with a
\* RuntimeWarning, no exception).
cosine_similarity(a, b) ==
    LET na == Dot(a.num, a.num)
        nb == Dot(b.num, b.num)
    IN  IF na = 0 \/ nb = 0
        THEN [nan |-> TRUE, dot |-> 0, sq |-> 1]
        ELSE [nan |-> FALSE, dot |-> Dot(a.num, b.num), sq |-> na * nb]

---------------------------------------------------------------------------
(* get_speaker_centroids                                                   *)

RECURSIVE GroupEmbeddings(_, _)
GroupEmbeddings(segments, speaker_embeddings) ==
    IF segments = <<>> THEN speaker_embeddings
    ELSE LET seg  == Head(segments)
             sid  == seg.speakerId
             prev == IF sid \in KeySet(speaker_embeddings)
                     THEN Get(speaker_embeddings, sid) ELSE <<>>
         IN  GroupEmbeddings(Tail(segments),
                             Put(speaker_embeddings, sid, Append(prev, seg.embedding)))

\* np.mean(embeddings, axis=0) of a non-empty list of equal-length vectors.
np_mean(embeddings) ==
    LET dim == Len(embeddings[1])
        sum == [c \in 1..dim |->
                  SumSeq([n \in 1..Len(embeddings) |-> embeddings[n][c]])]
        g   == GCD(Len(embeddings), GCDSeq(sum))
    IN  [num |-> [c \in 1..dim |-> sum[c] \div g], den |-> Len(embeddings) \div g]

\* np.mean raises on a ragged list of vectors.
MeanRaises(embeddings) ==
    \E n \in 1..Len(embeddings) : Len(embeddings[n]) # Len(embeddings[1])

get_speaker_centroids(segments) ==
    LET speaker_embeddings == GroupEmbeddings(segments, <<>>)
    IN  [n \in 1..Len(speaker_embeddings) |->
            [k |-> speaker_embeddings[n].k, v |-> np_mean(speaker_embeddings[n].v)]]

CentroidsRaise(segments) ==
    \/ \E n \in 1..Len(segments) :
          {"speakerId", "embedding"} \ segments[n].keys # {}
    \/ LET speaker_embeddings == GroupEmbeddings(segments, <<>>)
       IN  \E n \in 1..Len(speaker_embeddings) : MeanRaises(speaker_embeddings[n].v)

---------------------------------------------------------------------------
(* map_speakers                                                            *)

\* threshold: float = 0.85
threshold == [nan |-> FALSE, dot |-> 17, sq |-> 400]

\* Variant of BestLoop: the comparison is  sim >= best_sim.
RECURSIVE BestLoopInclusive(_, _, _, _, _)
BestLoopInclusive(new_centroid, existing_centroids, n, best_match, best_sim) ==
    IF n > Len(existing_centroids) THEN best_match
    ELSE LET sim == cosine_similarity(new_centroid, existing_centroids[n].v)
         IN  IF FloatGt(sim, best_sim) \/ FloatEq(sim, best_sim)
             THEN BestLoopInclusive(new_centroid, existing_centroids, n + 1,
                           [none |-> FALSE, sid |-> existing_centroids[n].k], sim)
             ELSE BestLoopInclusive(new_centroid, existing_centroids, n + 1,
                           best_match, best_sim)

\* The inner loop over existing_centroids.items(), from entry n on.
RECURSIVE BestLoop(_, _, _, _, _)
BestLoop(new_centroid, existing_centroids, n, best_match, best_sim) ==
    IF n > Len(existing_centroids) THEN best_match
    ELSE LET sim == cosine_similarity(new_centroid, existing_centroids[n].v)
         IN  IF FloatGt(sim, best_sim)
             THEN BestLoop(new_centroid, existing_centroids, n + 1,
                           [none |-> FALSE, sid |-> existing_centroids[n].k], sim)
             ELSE BestLoop(new_centroid, existing_centroids, n + 1,
                           best_match, best_sim)

BestMatch(new_centroid, existing_centroids) ==
    BestLoop(new_centroid, existing_centroids, 1, None, threshold)

\* Variant of MapLoop: a minted speaker is added to existing_centroids at
\* once, so that later speakers of the same chunk are compared with it.
RECURSIVE MapLoopIncremental(_, _, _, _, _)
MapLoopIncremental(new_centroids, existing_centroids, n, next_id, mapping) ==
    IF n > Len(new_centroids) THEN mapping
    ELSE LET best_match == BestMatch(new_centroids[n].v, existing_centroids)
         IN  IF ~best_match.none
             THEN MapLoopIncremental(new_centroids, existing_centroids, n + 1,
                          next_id,
                          Put(mapping, new_centroids[n].k, best_match.sid))
             ELSE MapLoopIncremental(new_centroids,
                          Put(existing_centroids, next_id, new_centroids[n].v),
                          n + 1, next_id + 1,
                          Put(mapping, new_centroids[n].k, next_id))

\* The outer loop over new_centroids.items(), from entry n on.
RECURSIVE MapLoop(_, _, _, _, _)
MapLoop(new_centroids, existing_centroids, n, next_id, mapping) ==
    IF n > Len(new_centroids) THEN mapping
    ELSE LET best_match == BestMatch(new_centroids[n].v, existing_centroids)
         IN  IF ~best_match.none
             THEN MapLoop(new_centroids, existing_centroids, n + 1, next_id,
                          Put(mapping, new_centroids[n].k, best_match.sid))
             ELSE MapLoop(new_centroids, existing_centroids, n + 1, next_id + 1,
                          Put(mapping, new_centroids[n].k, next_id))

\* Variant of FirstNextId: the number of registered speakers plus one.
FirstNextIdByCount(existing_centroids) == Len(existing_centroids) + 1

\* next_id = max(int(sid) for sid in existing_centroids.keys()) + 1
\*           if existing_centroids else 1
FirstNextId(existing_centroids) ==
    IF existing_centroids # <<>> THEN SetMax(KeySet(existing_centroids)) + 1 ELSE 1

map_speakers(new_centroids, existing_centroids) ==
    MapLoop(new_centroids, existing_centroids, 1, FirstNextId(existing_centroids), <<>>)

\* Every pair (new, existing) is passed to cosine_similarity.
MapSpeakersRaises(new_centroids, existing_centroids) ==
    \E n \in 1..Len(new_centroids), m \in 1..Len(existing_centroids) :
        CosineRaises(new_centroids[n].v, existing_centroids[m].v)

---------------------------------------------------------------------------
(* merge_chunks                                                            *)

\* Variant of InOverlap: the comparison is  start <= cutoff.
InOverlapInclusive(idx, start, offsets, size) ==
    idx > 0 /\ start <= offsets[idx] + size

\* "Skip segments in overlap region that duplicate previous chunk":
\* i > 0 and start < chunk_offsets[i - 1] + chunk_size   (idx is 0-based)
InOverlap(idx, start, offsets, size) ==
    idx > 0 /\ start < offsets[idx] + size

\* The loop "for seg in segments" that appends to all_segments.
RECURSIVE ProcessSegments(_, _, _, _, _, _)
ProcessSegments(segments, idx, offsets, size, map, acc) ==
    IF segments = <<>> THEN acc
    ELSE LET seg    == Head(segments)
             offset == offsets[idx + 1]
             start  == seg.startTimeSeconds + offset
             end    == seg.endTimeSeconds + offset
         IN  IF InOverlap(idx, start, offsets, size)
             THEN ProcessSegments(Tail(segments), idx, offsets, size, map, acc)
             ELSE ProcessSegments(Tail(segments), idx, offsets, size, map,
                    Append(acc, [startTimeSeconds |-> start,
                                 endTimeSeconds   |-> end,
                                 speakerId        |-> Get(map, seg.speakerId),
                                 qualityScore     |-> seg.qualityScore,
                                 embedding        |-> seg.embedding]))

\* KeyError raised inside the loop "for seg in segments".
SegmentsRaise(segments, idx, offsets, size) ==
    \E n \in 1..Len(segments) :
        \/ {"startTimeSeconds", "endTimeSeconds"} \ segments[n].keys # {}
        \/ /\ ~InOverlap(idx, segments[n].startTimeSeconds + offsets[idx + 1],
                         offsets, size)
           /\ "qualityScore" \notin segments[n].keys

\* speaker_map = {sid: sid for sid in chunk_centroids.keys()}
IdentityMap(chunk_centroids) ==
    [n \in 1..Len(chunk_centroids) |->
        [k |-> chunk_centroids[n].k, v |-> chunk_centroids[n].k]]

\* Variant of UpdateGlobal: the centroid of a matched speaker is replaced by
\* the chunk's centroid.
RECURSIVE UpdateGlobalOverwrite(_, _, _, _)
UpdateGlobalOverwrite(map, chunk_centroids, n, centroids) ==
    IF n > Len(map) THEN centroids
    ELSE UpdateGlobalOverwrite(map, chunk_centroids, n + 1,
                               Put(centroids, map[n].v, Get(chunk_centroids, map[n].k)))

\* "Update global centroids with new speakers", from mapping entry n on.
RECURSIVE UpdateGlobal(_, _, _, _)
UpdateGlobal(map, chunk_centroids, n, centroids) ==
    IF n > Len(map) THEN centroids
    ELSE LET new_sid    == map[n].k
             global_sid == map[n].v
         IN  IF global_sid \notin KeySet(centroids)
             THEN UpdateGlobal(map, chunk_centroids, n + 1,
                               Put(centroids, global_sid, Get(chunk_centroids, new_sid)))
             ELSE UpdateGlobal(map, chunk_centroids, n + 1, centroids)

\* The speaker map the iteration with index idx computes.
SpeakerMapOf(idx, chunk_centroids, centroids) ==
    IF idx = 0
    THEN IdentityMap(chunk_centroids)
    ELSE map_speakers(chunk_centroids, centroids)

\* The registry after the iteration with index idx.
GlobalAfter(idx, chunk_centroids, centroids) ==
    IF idx = 0
    THEN chunk_centroids
    ELSE UpdateGlobal(map_speakers(chunk_centroids, centroids), chunk_centroids,
                      1, centroids)

\* An exception leaves iteration idx of the for loop over data.
IterationRaises(idx, data, offsets, size, centroids) ==
    \/ "segments" \notin data.keys
    \/ /\ data.segments # <<>>
       /\ \/ CentroidsRaise(data.segments)
          \/ /\ idx > 0
             /\ MapSpeakersRaises(get_speaker_centroids(data.segments), centroids)
          \/ SegmentsRaise(data.segments, idx, offsets, size)
          \/ "durationSeconds" \notin data.keys

\* Variant of SkipChunk: the empty chunk still enters the running maximum.
SkipChunkCountsDuration ==
    /\ pc = "loop"
    /\ i < Len(chunk_files)
    /\ ~IterationRaises(i, chunk_files[i + 1], chunk_offsets, chunk_size,
                        global_centroids)
    /\ chunk_files[i + 1].segments = <<>>
    /\ i' = i + 1
    /\ total_duration' = Max2(total_duration,
                              chunk_files[i + 1].durationSeconds + chunk_offsets[i + 1])
    /\ UNCHANGED <<entry, chunk_files, chunk_offsets, chunk_size, overlap, pc,
                   all_segments, global_centroids, speaker_map, result, output>>

\* "if not segments: continue"
SkipChunk ==
    /\ pc = "loop"
    /\ i < Len(chunk_files)
    /\ ~IterationRaises(i, chunk_files[i + 1], chunk_offsets, chunk_size,
                        global_centroids)
    /\ chunk_files[i + 1].segments = <<>>
    /\ i' = i + 1
    /\ UNCHANGED <<entry, chunk_files, chunk_offsets, chunk_size, overlap, pc,
                   all_segments, global_centroids, total_duration, speaker_map,
                   result, output>>

\* One iteration of the for loop over a chunk that has segments.
ProcessChunk ==
    /\ pc = "loop"
    /\ i < Len(chunk_files)
    /\ ~IterationRaises(i, chunk_files[i + 1], chunk_offsets, chunk_size,
                        global_centroids)
    /\ chunk_files[i + 1].segments # <<>>
    /\ LET data            == chunk_files[i + 1]
           offset          == chunk_offsets[i + 1]
           chunk_centroids == get_speaker_centroids(data.segments)
           map             == SpeakerMapOf(i, chunk_centroids, global_centroids)
       IN  /\ speaker_map' = map
           /\ global_centroids' = GlobalAfter(i, chunk_centroids, global_centroids)
           /\ all_segments' = ProcessSegments(data.segments, i, chunk_offsets,
                                               chunk_size, map, all_segments)
           /\ total_duration' = Max2(total_duration, data.durationSeconds + offset)
    /\ i' = i + 1
    /\ UNCHANGED <<entry, chunk_files, chunk_offsets, chunk_size, overlap, pc,
                   result, output>>

\* An exception propagates out of merge_chunks (and, uncaught, out of main).
Raise ==
    /\ pc = "loop"
    /\ i < Len(chunk_files)
    /\ IterationRaises(i, chunk_files[i + 1], chunk_offsets, chunk_size,
                       global_centroids)
    /\ pc' = "error"
    /\ UNCHANGED <<entry, chunk_files, chunk_offsets, chunk_size, overlap, i,
                   all_segments, global_centroids, total_duration, speaker_map,
                   result, output>>

\* list.sort(key=startTimeSeconds) is stable: x goes after every element
\* whose key is <= its own.
RECURSIVE InsertSorted(_, _)
InsertSorted(sorted, x) ==
    IF sorted = <<>> THEN <<x>>
    ELSE IF x.startTimeSeconds < Head(sorted).startTimeSeconds
         THEN <<x>> \o sorted
         ELSE <<Head(sorted)>> \o InsertSorted(Tail(sorted), x)

RECURSIVE SortByStart(_, _)
SortByStart(segments, sorted) ==
    IF segments = <<>> THEN sorted
    ELSE SortByStart(Tail(segments), InsertSorted(sorted, Head(segments)))

\* The result dict ('audioFile' is a literal and 'timestamp' a file mtime;
\* neither is modelled).
BuildResult(files, segments, centroids, duration) ==
    [none            |-> FALSE,
     chunks          |-> Len(files),
     durationSeconds |-> duration,
     segments        |-> SortByStart(segments, <<>>),
     speakerCount    |-> Len(centroids)]

\* The loop is over: sort, build the result, return.
Return ==
    /\ pc = "loop"
    /\ i = Len(chunk_files)
    /\ result' = BuildResult(chunk_files, all_segments, global_centroids,
                             total_duration)
    /\ all_segments' = result'.segments
    /\ pc' = "returned"
    /\ UNCHANGED <<entry, chunk_files, chunk_offsets, chunk_size, overlap, i,
                   global_centroids, total_duration, speaker_map, output>>

---------------------------------------------------------------------------
(* main                                                                    *)

\* Variant of MainOffsets: consecutive chunks start chunk_size - 1 apart.
MainOffsetsOverlapped(n, size) == [c \in 1..n |-> (c - 1) * (size - 1)]

\* offsets = [i * args.chunk_size for i in range(len(args.chunks))]
MainOffsets(n, size) == [c \in 1..n |-> (c - 1) * size]

\* json.dump(result, f)
WriteOutput ==
    /\ entry = "main"
    /\ pc = "returned"
    /\ output' = result
    /\ pc' = "written"
    /\ UNCHANGED <<entry, chunk_files, chunk_offsets, chunk_size, overlap, i,
                   all_segments, global_centroids, total_duration, speaker_map,
                   result>>

Next == SkipChunk \/ ProcessChunk \/ Raise \/ Return \/ WriteOutput

---------------------------------------------------------------------------
(* Inputs.  A run reads at most MaxChunks chunk files of at most MaxSegs   *)
(* segments each; the segments of one chunk are pairwise different members *)
(* of a pool.                                                              *)

MaxChunks == 2
MaxSegs == 2

SegmentKeys == {"startTimeSeconds", "endTimeSeconds", "speakerId",
                "qualityScore", "embedding"}

ChunkKeys == {"segments", "durationSeconds"}

Segment(start, end, sid, emb) ==
    [keys |-> SegmentKeys, startTimeSeconds |-> start, endTimeSeconds |-> end,
     speakerId |-> sid, qualityScore |-> 1, embedding |-> emb]

Chunk(segments, duration) ==
    [keys |-> ChunkKeys, segments |-> segments, durationSeconds |-> duration]

\* The JSON object obj with key absent.
Without(obj, key) == [obj EXCEPT !.keys = @ \ {key}]

SegmentLists(Pool) ==
    {s \in UNION {[1..m -> Pool] : m \in 0..MaxSegs} :
        \A a, b \in DOMAIN s : a # b => s[a] # s[b]}

\* Embeddings.  cos(eA, eA2) = 1,  cos(eA, eT) = 17/20 = 0.85 exactly,
\* eZ has norm 0 and eD another dimension.
eA  == <<1, 0, 0, 0, 0>>
eA2 == <<2, 0, 0, 0, 0>>
eT  == <<17, 10, 3, 1, 1>>
eZ  == <<0, 0, 0, 0, 0>>
eD  == <<1, 0>>

NoSegmentsKey == Without(Chunk(<<>>, 3), "segments")

SpeakerPool ==
    {Segment(0, 1, 1, eA), Segment(0, 1, 2, eA2), Segment(0, 1, 2, eT)}

SpeakerChunks ==
    {Chunk(s, 3) : s \in SegmentLists(SpeakerPool)} \cup {NoSegmentsKey}

TimelinePool == {Segment(0, 1, 1, eA), Segment(1, 3, 2, eT)}

TimelineChunks ==
    {Chunk(s, 3) : s \in SegmentLists(TimelinePool)} \cup {NoSegmentsKey}

MainPool == {Segment(0, 1, 1, eA), Segment(-1, 1, 2, eT)}

MainChunks ==
    {Chunk(s, 3) : s \in SegmentLists(MainPool)} \cup {NoSegmentsKey}

MalformedPool ==
    {Without(Segment(-1, 1, 1, eA), "qualityScore"),
     Segment(0, 1, 2, eZ),
     Segment(0, 1, 3, eD)}

MalformedChunks ==
    {Chunk(s, 3) : s \in SegmentLists(MalformedPool)}
      \cup {NoSegmentsKey, Without(Chunk(<<>>, 3), "durationSeconds")}

InitWith(Chunks, Offsets, Sizes, Overlaps, Entries) ==
    /\ entry \in Entries
    /\ chunk_size \in Sizes
    /\ overlap \in Overlaps
    /\ \E n \in 0..MaxChunks :
          /\ chunk_files \in [1..n -> Chunks]
          /\ IF entry = "main"
             THEN n > 0 /\ chunk_offsets = MainOffsets(n, chunk_size)
             ELSE chunk_offsets \in [1..n -> Offsets]
    /\ pc = "loop"
    /\ i = 0
    /\ all_segments = <<>>
    /\ global_centroids = <<>>
    /\ total_duration = 0
    /\ speaker_map = <<>>
    /\ result = None
    /\ output = None

\* The CLI on chunks whose speakers and embeddings vary.
Init == InitWith(SpeakerChunks, {}, {2}, {1}, {"main"})

Spec == Init /\ [][Next]_vars

\* merge_chunks called with any offsets (and the CLI), on chunks whose
\* segment times vary.
InitTimeline ==
    InitWith(TimelineChunks, {0, 1, 2}, {2}, {1}, {"main", "merge_chunks"})

SpecTimeline == InitTimeline /\ [][Next]_vars

\* The CLI with several chunk sizes and overlaps.
InitMain == InitWith(MainChunks, {}, {2, 3}, {0, 1}, {"main"})

SpecMain == InitMain /\ [][Next]_vars

\* The CLI on chunk files with absent keys and degenerate embeddings.
InitMalformed == InitWith(MalformedChunks, {}, {2}, {1}, {"main"})

SpecMalformed == InitMalformed /\ [][Next]_vars

---------------------------------------------------------------------------
(* Properties.                                                             *)

Segments(idx) == chunk_files[idx + 1].segments

Range(seq) == {seq[n] : n \in 1..Len(seq)}

\* The step taken is an iteration of the loop that processed a chunk with
\* segments (i is its index).
ProcessStep ==
    /\ pc = "loop" /\ pc' = "loop"
    /\ i < Len(chunk_files) /\ i' = i + 1
    /\ Segments(i) # <<>>

\* The step taken is an iteration that went through map_speakers.
MapStep == ProcessStep /\ i > 0

\* The registry entries whose similarity to centroid c is above the threshold.
Above(c, registry) ==
    {m \in 1..Len(registry) :
        FloatGt(cosine_similarity(c, registry[m].v), threshold)}

\* Some registry entry has a similarity to c exactly equal to the threshold.
AtThreshold(c, registry) ==
    \E m \in 1..Len(registry) :
        FloatEq(cosine_similarity(c, registry[m].v), threshold)

\* The first entry, in registry order, among those of highest similarity.
FirstHighest(c, registry) ==
    CHOOSE m \in Above(c, registry) :
        \A o \in Above(c, registry) :
            /\ ~FloatGt(cosine_similarity(c, registry[o].v),
                        cosine_similarity(c, registry[m].v))
            /\ o < m => FloatGt(cosine_similarity(c, registry[m].v),
                                cosine_similarity(c, registry[o].v))

\* C1: the first chunk with segments, at whatever list index, gets the
\* identity mapping: after its iteration the speaker map sends every local ID
\* to itself, the registry holds exactly the chunk's centroids, and the
\* emitted segments carry the local IDs.
C1_FirstProcessedIdentity ==
    \A f \in 1..Len(chunk_files) :
        ( /\ pc = "loop" /\ i = f
          /\ Segments(f - 1) # <<>>
          /\ \A g \in 0..(f - 2) : Segments(g) = <<>> )
        => LET local == get_speaker_centroids(Segments(f - 1))
           IN  /\ \A n \in 1..Len(local) :
                     Get(speaker_map, local[n].k) = local[n].k
               /\ global_centroids = local
               /\ all_segments =
                    ProcessSegments(Segments(f - 1), f - 1, chunk_offsets,
                                    chunk_size, IdentityMap(local), <<>>)

\* C3: in every iteration that maps speakers, a local speaker with at least
\* one registry centroid of similarity strictly above the threshold is mapped
\* to the ID of highest similarity, the first in registry order among equal
\* highest ones; a local speaker with no similarity above the threshold
\* (equal to it included) is mapped to no ID of the registry.
C3_MatchingRule ==
    [][MapStep =>
         LET local == get_speaker_centroids(Segments(i))
         IN  \A n \in 1..Len(local) :
                IF Above(local[n].v, global_centroids) # {}
                THEN Get(speaker_map', local[n].k) =
                       global_centroids[FirstHighest(local[n].v, global_centroids)].k
                ELSE Get(speaker_map', local[n].k) \notin KeySet(global_centroids)
      ]_vars

\* Witness of C3: two chunks were processed; a speaker of the second had two
\* registry centroids of equal highest similarity and got the first, and
\* another had a similarity exactly equal to the threshold, none above, and
\* got an ID that was not in the registry.
C3_Witness ==
    /\ pc = "loop" /\ i = 2
    /\ Segments(0) # <<>> /\ Segments(1) # <<>>
    /\ LET before == get_speaker_centroids(Segments(0))
           local  == get_speaker_centroids(Segments(1))
       IN  /\ \E n \in 1..Len(local) :
                 /\ \E a, b \in Above(local[n].v, before) :
                       /\ a < b
                       /\ a = FirstHighest(local[n].v, before)
                       /\ FloatEq(cosine_similarity(local[n].v, before[a].v),
                                  cosine_similarity(local[n].v, before[b].v))
                 /\ Get(speaker_map, local[n].k) =
                       before[FirstHighest(local[n].v, before)].k
           /\ \E n \in 1..Len(local) :
                 /\ AtThreshold(local[n].v, before)
                 /\ Above(local[n].v, before) = {}
                 /\ Get(speaker_map, local[n].k) \notin KeySet(before)

\* The local speakers, in order, that match no registry centroid.
Unmatched(local, registry) ==
    SelectSeq(local, LAMBDA e : Above(e.v, registry) = {})

MaxId(registry) == IF registry = <<>> THEN 0 ELSE SetMax(KeySet(registry))

\* C4: in every iteration that maps speakers, the k-th local speaker without
\* a match receives the ID (maximum ID of the registry, 0 if it is empty)
\* + k, which is not an ID of the registry, and is registered under it with
\* its own centroid; the registry never holds an ID twice.
C4_Minting ==
    [][MapStep =>
         LET local == get_speaker_centroids(Segments(i))
             fresh == Unmatched(local, global_centroids)
         IN  /\ \A k \in 1..Len(fresh) :
                   /\ Get(speaker_map', fresh[k].k) = MaxId(global_centroids) + k
                   /\ MaxId(global_centroids) + k \notin KeySet(global_centroids)
                   /\ MaxId(global_centroids) + k \in KeySet(global_centroids')
                   /\ Get(global_centroids', MaxId(global_centroids) + k) = fresh[k].v
             /\ Cardinality(KeySet(global_centroids')) = Len(global_centroids')
      ]_vars

\* Witness of C4: the second chunk had two speakers without a match; the
\* registry held one speaker whose ID was not 1, and they were minted its
\* ID + 1 and its ID + 2.
C4_Witness ==
    /\ pc = "loop" /\ i = 2
    /\ Segments(0) # <<>> /\ Segments(1) # <<>>
    /\ LET before == get_speaker_centroids(Segments(0))
           fresh  == Unmatched(get_speaker_centroids(Segments(1)), before)
       IN  /\ Len(before) = 1 /\ MaxId(before) > 1
           /\ Len(fresh) = 2
           /\ Get(speaker_map, fresh[1].k) = MaxId(before) + 1
           /\ Get(speaker_map, fresh[2].k) = MaxId(before) + 2
           /\ Len(global_centroids) = 3

\* C8: in every iteration that maps speakers, an ID given to a local speaker
\* is either an ID the registry held before the iteration, whose centroid as
\* it was then is above the threshold for that speaker, or an ID given to no
\* other speaker of the chunk; so two speakers of one chunk share an ID only
\* when both matched the same ID of the registry as it was before.
C8_SnapshotMatching ==
    [][MapStep =>
         LET local == get_speaker_centroids(Segments(i))
             matched(n) ==
                 /\ Get(speaker_map', local[n].k) \in KeySet(global_centroids)
                 /\ FloatGt(cosine_similarity(local[n].v,
                              Get(global_centroids, Get(speaker_map', local[n].k))),
                            threshold)
         IN  \A a, b \in 1..Len(local) :
                (a # b /\ Get(speaker_map', local[a].k) = Get(speaker_map', local[b].k))
                => (matched(a) /\ matched(b))
      ]_vars

\* Witness of C8: the second chunk had two speakers whose centroids are
\* parallel (similarity 1 to each other); neither matched the registry, and
\* they got different IDs.
C8_Witness ==
    /\ pc = "loop" /\ i = 2
    /\ Segments(0) # <<>> /\ Segments(1) # <<>>
    /\ LET before == get_speaker_centroids(Segments(0))
           local  == get_speaker_centroids(Segments(1))
       IN  /\ Len(local) = 2
           /\ Above(local[1].v, before) = {} /\ Above(local[2].v, before) = {}
           /\ FloatGt(cosine_similarity(local[1].v, local[2].v), threshold)
           /\ Get(speaker_map, local[1].k) # Get(speaker_map, local[2].k)

\* C9: no step removes an ID from the registry or changes the centroid
\* stored for an ID, and the result's speakerCount is the size of the final
\* registry.
C9_RegistryMonotone ==
    /\ [][\A id \in KeySet(global_centroids) :
             /\ id \in KeySet(global_centroids')
             /\ Get(global_centroids', id) = Get(global_centroids, id)]_vars
    /\ [](pc \in {"returned", "written"}
            => result.speakerCount = Cardinality(KeySet(global_centroids)))

\* Witness of C9: a speaker of the second chunk was mapped onto an ID of the
\* first chunk although its centroid differs from the registered one, and the
\* run returned.
C9_Witness ==
    /\ pc = "returned"
    /\ Len(chunk_files) = 2
    /\ Segments(0) # <<>> /\ Segments(1) # <<>>
    /\ LET before == get_speaker_centroids(Segments(0))
           local  == get_speaker_centroids(Segments(1))
       IN  \E n \in 1..Len(local) :
              /\ Get(speaker_map, local[n].k) \in KeySet(before)
              /\ Get(before, Get(speaker_map, local[n].k)) # local[n].v
              /\ Get(global_centroids, Get(speaker_map, local[n].k)) =
                    Get(before, Get(speaker_map, local[n].k))
    /\ result.speakerCount = Len(global_centroids)

\* The times, score and embedding of an emitted segment.
Timing(seg) ==
    [startTimeSeconds |-> seg.startTimeSeconds,
     endTimeSeconds   |-> seg.endTimeSeconds,
     qualityScore     |-> seg.qualityScore,
     embedding        |-> seg.embedding]

\* Segment seg of the chunk with index idx starts before the cutoff
\* offset_(idx-1) + chunkSize.
BeforeCutoff(idx, seg) ==
    /\ idx > 0
    /\ seg.startTimeSeconds + chunk_offsets[idx + 1]
          < chunk_offsets[idx] + chunk_size

\* The segments of the chunk with index idx that are not before the cutoff,
\* shifted by the chunk's offset.
Surviving(idx) ==
    LET kept == SelectSeq(Segments(idx), LAMBDA seg : ~BeforeCutoff(idx, seg))
    IN  [n \in 1..Len(kept) |->
            [startTimeSeconds |-> kept[n].startTimeSeconds + chunk_offsets[idx + 1],
             endTimeSeconds   |-> kept[n].endTimeSeconds + chunk_offsets[idx + 1],
             qualityScore     |-> kept[n].qualityScore,
             embedding        |-> kept[n].embedding]]

RECURSIVE SurvivingBefore(_)
SurvivingBefore(idx) ==
    IF idx = 0 THEN <<>> ELSE SurvivingBefore(idx - 1) \o Surviving(idx - 1)

Count(seq, x) == Cardinality({n \in 1..Len(seq) : seq[n] = x})

SameBag(s, t) ==
    /\ Len(s) = Len(t)
    /\ \A x \in Range(s) : Count(s, x) = Count(t, x)

SortedByStart(seq) ==
    \A a, b \in 1..Len(seq) :
        a < b => seq[a].startTimeSeconds <= seq[b].startTimeSeconds

\* C2: while the loop runs, the accumulated segments are, in order, the
\* segments of the chunks read so far that are not before the cutoff
\* offset_(i-1) + chunkSize (for i > 0, whether or not chunk i-1 had
\* segments), each once and with start and end shifted by offset_i; the
\* returned timeline holds the same segments, each as often, in start order.
C2_OverlapDedup ==
    /\ pc = "loop" =>
          [n \in 1..Len(all_segments) |-> Timing(all_segments[n])]
             = SurvivingBefore(i)
    /\ pc \in {"returned", "written"} =>
          /\ SameBag([n \in 1..Len(result.segments) |-> Timing(result.segments[n])],
                     SurvivingBefore(Len(chunk_files)))
          /\ SortedByStart(result.segments)

\* Witness of C2: the run returned; the first chunk was empty, and of the two
\* segments of the second chunk one was before the cutoff and is absent from
\* the timeline, the other was not and is in it.
C2_Witness ==
    /\ pc = "returned"
    /\ Len(chunk_files) = 2
    /\ Segments(0) = <<>> /\ Len(Segments(1)) = 2
    /\ \E a, b \in 1..2 :
          /\ BeforeCutoff(1, Segments(1)[a])
          /\ ~BeforeCutoff(1, Segments(1)[b])
          /\ \A n \in 1..Len(result.segments) :
                result.segments[n].embedding # Segments(1)[a].embedding
          /\ \E n \in 1..Len(result.segments) :
                /\ result.segments[n].embedding = Segments(1)[b].embedding
                /\ result.segments[n].startTimeSeconds =
                      Segments(1)[b].startTimeSeconds + chunk_offsets[2]
    /\ Len(result.segments) = 1

\* The chunk with index idx is read without error and has no segments.
EmptyChunk(idx) ==
    /\ "segments" \in chunk_files[idx + 1].keys
    /\ Segments(idx) = <<>>

\* The largest durationSeconds + offset over the chunks with segments.
DurationOfProcessed ==
    LET ends == {chunk_files[c].durationSeconds + chunk_offsets[c] :
                    c \in {d \in 1..Len(chunk_files) : Segments(d - 1) # <<>>}}
    IN  IF ends = {} THEN 0 ELSE Max2(0, SetMax(ends))

\* C5: the iteration over a chunk with no segments only advances the loop:
\* registry, accumulated segments and total duration are unchanged; and the
\* returned duration is the maximum over the chunks that have segments.
C5_EmptyChunkNoOp ==
    /\ [][(pc = "loop" /\ i < Len(chunk_files) /\ EmptyChunk(i))
            => /\ pc' = "loop" /\ i' = i + 1
               /\ UNCHANGED <<global_centroids, all_segments, total_duration>>]_vars
    /\ [](pc \in {"returned", "written"}
            => result.durationSeconds = DurationOfProcessed)

\* Witness of C5: the run returned; a chunk with segments was followed by an
\* empty chunk whose durationSeconds + offset exceeds the returned duration.
C5_Witness ==
    /\ pc = "returned"
    /\ \E c, d \in 1..Len(chunk_files) :
          /\ c < d
          /\ Segments(c - 1) # <<>>
          /\ EmptyChunk(d - 1)
          /\ chunk_files[d].durationSeconds + chunk_offsets[d]
                > result.durationSeconds
    /\ result.durationSeconds > 0
    /\ result.speakerCount > 0

RECURSIVE SegmentsBefore(_)
SegmentsBefore(idx) ==
    IF idx = 0 THEN 0 ELSE SegmentsBefore(idx - 1) + Len(Segments(idx - 1))

NonNegativeStarts(idx) ==
    \A c \in 1..idx : \A n \in 1..Len(chunk_files[c].segments) :
        chunk_files[c].segments[n].startTimeSeconds >= 0

WellFormedChunk(data) ==
    /\ ChunkKeys \subseteq data.keys
    /\ \A n \in 1..Len(data.segments) : SegmentKeys \subseteq data.segments[n].keys

\* The centroid is the zero vector.
ZeroNorm(c) == \A n \in 1..Len(c.num) : c.num[n] = 0

\* The iteration about to run is over a chunk with every required field and
\* reaches map_speakers, which calls cosine_similarity on a zero-norm vector
\* or on vectors of different dimension.
DegenerateComparison ==
    /\ pc = "loop" /\ i > 0 /\ i < Len(chunk_files)
    /\ WellFormedChunk(chunk_files[i + 1])
    /\ Segments(i) # <<>>
    /\ ~CentroidsRaise(Segments(i))
    /\ LET local == get_speaker_centroids(Segments(i))
       IN  \E n \in 1..Len(local), m \in 1..Len(global_centroids) :
              \/ ZeroNorm(local[n].v)
              \/ ZeroNorm(global_centroids[m].v)
              \/ Len(local[n].v.num) # Len(global_centroids[m].v.num)

\* C6: an iteration in which cosine_similarity is called on a zero-norm
\* vector or on vectors of different dimension ends the run with an error.
C6_SimilarityFailsFast ==
    [][DegenerateComparison => pc' = "error"]_vars

\* C7: a run that returns a timeline, or writes one, read only chunks that
\* have every required field, in the chunk and in each of its segments.
C7_MalformedInputAborts ==
    pc \in {"returned", "written"}
       => \A c \in 1..Len(chunk_files) : WellFormedChunk(chunk_files[c])

===========================================================================
